---- MODULE Spec2Model ----
(***************************************************************************)
(* The Porter stemmer of nltk/stem/porter.py.                              *)
(*                                                                         *)
(* A word is a sequence of one-character strings.  Python's 0-based and    *)
(* negative indices and its slices are kept: At(word, i) is word[i] and    *)
(* SliceTo(word, k) is word[:k].  A Python call returns a record           *)
(* [exc, val]: exc is "none" and val the value returned, or exc names the  *)
(* exception the call raised.                                              *)
(***************************************************************************)
EXTENDS Integers, Sequences, FiniteSets, TLC

VARIABLES pool, vowels, ctorExc, pc, word, stem, before, path, result, exc

vars == <<pool, vowels, ctorExc, pc, word, stem, before, path, result, exc>>

\* Longest word drawn from Alphabet as an input of stem.
MaxLen == 4

\* Number of threads sharing the stemmer instance in SpecConc.
NumThreads == 2

Threads == 1..NumThreads

MainThread == {1}

Min(a, b) == IF a < b THEN a ELSE b

Max(a, b) == IF a > b THEN a ELSE b

Ok(v) == [exc |-> "none", val |-> v]

Raise(e) == [exc |-> e, val |-> <<>>]

----------------------------------------------------------------------------
\* Python strings

\* str.lower on the letters A-Z
UpperToLower ==
  [A |-> "a", B |-> "b", C |-> "c", D |-> "d", E |-> "e", F |-> "f", G |-> "g",
   H |-> "h", I |-> "i", J |-> "j", K |-> "k", L |-> "l", M |-> "m", N |-> "n",
   O |-> "o", P |-> "p", Q |-> "q", R |-> "r", S |-> "s", T |-> "t", U |-> "u",
   V |-> "v", W |-> "w", X |-> "x", Y |-> "y", Z |-> "z"]

Lower(w) ==
  [i \in 1..Len(w) |-> IF w[i] \in DOMAIN UpperToLower THEN UpperToLower[w[i]] ELSE w[i]]

\* word[i] for an index in range, -len(word) <= i < len(word)
At(w, i) == IF i < 0 THEN w[Len(w) + i + 1] ELSE w[i + 1]

\* word[:k]
SliceTo(w, k) ==
  SubSeq(w, 1, IF k < 0 THEN Max(Len(w) + k, 0) ELSE Min(k, Len(w)))

\* word.endswith(suffix)
EndsWith(w, suffix) ==
  /\ Len(suffix) <= Len(w)
  /\ SubSeq(w, Len(w) - Len(suffix) + 1, Len(w)) = suffix

----------------------------------------------------------------------------
\* The irregular forms and the classifier

IrregularForms ==
  [p \in {<<"s", "k", "y">>, <<"d", "i", "e">>, <<"l", "i", "e">>, <<"t", "i", "e">>, <<"n", "e", "w", "s">>, <<"i", "n", "n", "i", "n", "g">>, <<"o", "u", "t", "i", "n", "g">>, <<"c", "a", "n", "n", "i", "n", "g">>,
          <<"h", "o", "w", "e">>, <<"p", "r", "o", "c", "e", "e", "d">>, <<"e", "x", "c", "e", "e", "d">>, <<"s", "u", "c", "c", "e", "e", "d">>} |->
     CASE p = <<"s", "k", "y">> -> <<<<"s", "k", "y">>, <<"s", "k", "i", "e", "s">>>>
       [] p = <<"d", "i", "e">> -> <<<<"d", "y", "i", "n", "g">>>>
       [] p = <<"l", "i", "e">> -> <<<<"l", "y", "i", "n", "g">>>>
       [] p = <<"t", "i", "e">> -> <<<<"t", "y", "i", "n", "g">>>>
       [] p = <<"n", "e", "w", "s">> -> <<<<"n", "e", "w", "s">>>>
       [] p = <<"i", "n", "n", "i", "n", "g">> -> <<<<"i", "n", "n", "i", "n", "g", "s">>, <<"i", "n", "n", "i", "n", "g">>>>
       [] p = <<"o", "u", "t", "i", "n", "g">> -> <<<<"o", "u", "t", "i", "n", "g", "s">>, <<"o", "u", "t", "i", "n", "g">>>>
       [] p = <<"c", "a", "n", "n", "i", "n", "g">> -> <<<<"c", "a", "n", "n", "i", "n", "g", "s">>, <<"c", "a", "n", "n", "i", "n", "g">>>>
       [] p = <<"h", "o", "w", "e">> -> <<<<"h", "o", "w", "e">>>>
       [] p = <<"p", "r", "o", "c", "e", "e", "d">> -> <<<<"p", "r", "o", "c", "e", "e", "d">>>>
       [] p = <<"e", "x", "c", "e", "e", "d">> -> <<<<"e", "x", "c", "e", "e", "d">>>>
       [] p = <<"s", "u", "c", "c", "e", "e", "d">> -> <<<<"s", "u", "c", "c", "e", "e", "d">>>>]

\* self.pool as __init__ leaves it: pool[val] = key for every val of every key
BuildPool(forms) ==
  LET vals == UNION {{forms[k][i] : i \in 1..Len(forms[k])} : k \in DOMAIN forms}
  IN [v \in vals |->
        CHOOSE k \in DOMAIN forms : \E i \in 1..Len(forms[k]) : forms[k][i] = v]

BuildVowels == {"a", "e", "i", "o", "u"}

RECURSIVE Cons(_, _)
Cons(w, i) ==
  IF At(w, i) \in vowels THEN FALSE
  ELSE IF At(w, i) = "y"
       THEN (IF i = 0 THEN TRUE ELSE ~Cons(w, i - 1))
       ELSE TRUE

RECURSIVE MLeadingCons(_, _, _, _)
RECURSIVE MVowels(_, _, _, _)
RECURSIVE MConsonants(_, _, _, _)
\* the first loop of _m: skip the leading consonants
MLeadingCons(w, j, i, n) ==
  IF i > j THEN n
  ELSE IF ~Cons(w, i) THEN MVowels(w, j, i + 1, n)
  ELSE MLeadingCons(w, j, i + 1, n)

\* the loop of _m that runs over a vowel sequence; the consonant ending it counts
MVowels(w, j, i, n) ==
  IF i > j THEN n
  ELSE IF Cons(w, i) THEN MConsonants(w, j, i + 1, n + 1)
  ELSE MVowels(w, j, i + 1, n)

\* the loop of _m that runs over a consonant sequence
MConsonants(w, j, i, n) ==
  IF i > j THEN n
  ELSE IF ~Cons(w, i) THEN MVowels(w, j, i + 1, n)
  ELSE MConsonants(w, j, i + 1, n)

\* mutant of M: the leading consonants are not skipped
MWithoutLeadingCons(w, j) == MVowels(w, j, 0, 0)

M(w, j) == MLeadingCons(w, j, 0, 0)

CvSequence(s) == [i \in 1..Len(s) |-> IF Cons(s, i - 1) THEN "c" ELSE "v"]

\* cv_sequence.count('vc')
CountVc(cv) ==
  Cardinality({i \in 1..(Len(cv) - 1) : cv[i] = "v" /\ cv[i + 1] = "c"})

Measure(s) == CountVc(CvSequence(s))

\* mutant of VowelInStem: every stem passes, the empty one too
VowelInStemNoCheck(s) == TRUE

VowelInStem(s) == \E i \in 0..(Len(s) - 1) : ~Cons(s, i)

Doublec(w) ==
  IF Len(w) < 2 THEN FALSE
  ELSE IF At(w, -1) # At(w, -2) THEN FALSE
  ELSE Cons(w, Len(w) - 1)

EndsCvc(w) ==
  /\ Len(w) >= 3
  /\ Cons(w, Len(w) - 3)
  /\ ~Cons(w, Len(w) - 2)
  /\ Cons(w, Len(w) - 1)
  /\ At(w, -1) \notin {"w", "x", "y"}

\* mutant of Cvc: no case for a two-letter vowel-consonant stem
CvcLastThreeOnly(w, i) ==
  IF i < 2 THEN FALSE
  ELSE IF ~Cons(w, i) \/ Cons(w, i - 1) \/ ~Cons(w, i - 2) THEN FALSE
  ELSE IF At(w, i) \in {"w", "x", "y"} THEN FALSE
  ELSE TRUE

Cvc(w, i) ==
  IF i = 0 THEN FALSE
  ELSE IF i = 1 THEN (~Cons(w, 0) /\ Cons(w, 1))
  ELSE IF ~Cons(w, i) \/ Cons(w, i - 1) \/ ~Cons(w, i - 2) THEN FALSE
  ELSE IF At(w, i) \in {"w", "x", "y"} THEN FALSE
  ELSE TRUE

----------------------------------------------------------------------------
\* The rule engine

\* A rule's condition is the lambda of the source with the variables it closes over.
NoCondition == [kind |-> "None"]

Rule(suffix, replacement, condition) ==
  [suffix |-> suffix, replacement |-> replacement, condition |-> condition]

\* condition(stem)
Condition(c, s) ==
  CASE c.kind = "LenWordIs4" -> Len(c.word) = 4
    [] c.kind = "MeasureGt0" -> Measure(s) > 0
    [] c.kind = "VowelInStem" -> VowelInStem(s)
    [] c.kind = "FinalLetterNotLSZ" -> c.final_letter \notin {"l", "s", "z"}
    [] c.kind = "Measure1AndEndsCvc" -> Measure(s) = 1 /\ EndsCvc(s)

\* mutant of ReplaceSuffix: the replacement is appended and the suffix kept
ReplaceSuffixKeepingSuffix(w, suffix, replacement) ==
  IF ~EndsWith(w, suffix) THEN Raise("AssertionError")
  ELSE Ok(w \o replacement)

ReplaceSuffix(w, suffix, replacement) ==
  IF ~EndsWith(w, suffix) THEN Raise("AssertionError")
  ELSE Ok(SliceTo(w, -Len(suffix)) \o replacement)

ReplaceSuffixIf(w, suffix, replacement, condition) ==
  IF ~EndsWith(w, suffix) THEN Raise("CannotReplaceSuffix")
  ELSE LET r == ReplaceSuffix(w, suffix, replacement)
       IN IF r.exc # "none" THEN r
          ELSE IF condition.kind = "None" \/ Condition(condition, r.val) THEN r
          ELSE Raise("CannotReplaceSuffix")

RECURSIVE ApplyRulesFrom(_, _, _)
\* mutant of ApplyRulesFrom: _CannotReplaceSuffix is not caught
ApplyRulesNoCatch(w, rules, k) ==
  IF k > Len(rules) THEN Ok(w)
  ELSE ReplaceSuffixIf(w, rules[k].suffix, rules[k].replacement, rules[k].condition)

\* mutant of ApplyRulesFrom: a rule whose suffix matches and whose condition fails
\* ends the loop, and the word is returned unchanged
ApplyRulesStoppingAtFailedCondition(w, rules, k) ==
  IF k > Len(rules) THEN Ok(w)
  ELSE IF EndsWith(w, rules[k].suffix)
  THEN LET r == ReplaceSuffixIf(w, rules[k].suffix, rules[k].replacement,
                                rules[k].condition)
       IN IF r.exc = "CannotReplaceSuffix" THEN Ok(w) ELSE r
  ELSE ApplyRulesFrom(w, rules, k + 1)

\* the for loop of _apply_first_possible_rule, from the k-th rule on
ApplyRulesFrom(w, rules, k) ==
  IF k > Len(rules) THEN Ok(w)
  ELSE LET r == ReplaceSuffixIf(w, rules[k].suffix, rules[k].replacement,
                                rules[k].condition)
       IN IF r.exc = "CannotReplaceSuffix" THEN ApplyRulesFrom(w, rules, k + 1)
          ELSE r

ApplyFirstPossibleRule(w, rules) == ApplyRulesFrom(w, rules, 1)

----------------------------------------------------------------------------
\* The steps

Step1a(w) ==
  ApplyFirstPossibleRule(w, <<
    Rule(<<"s", "s", "e", "s">>, <<"s", "s">>, NoCondition),
    Rule(<<"i", "e", "s">>, <<"i", "e">>, [kind |-> "LenWordIs4", word |-> w]),
    Rule(<<"i", "e", "s">>, <<"i">>, NoCondition),
    Rule(<<"s", "s">>, <<"s", "s">>, NoCondition),
    Rule(<<"s">>, <<>>, NoCondition)>>)

\* the for loop of _step1b over the ED and ING rules
Step1bRule2Or3(w) ==
  LET r2 == ReplaceSuffixIf(w, <<"e", "d">>, <<>>, [kind |-> "VowelInStem"])
  IN IF r2.exc = "CannotReplaceSuffix"
     THEN ReplaceSuffixIf(w, <<"i", "n", "g">>, <<>>, [kind |-> "VowelInStem"])
     ELSE r2

\* mutant of Step1bSecondPass: the second rule pass is left out
Step1bNoSecondPass(intermediate_stem) == Ok(intermediate_stem)

\* the second rule pass of _step1b, on the stem the ED or ING rule left
Step1bSecondPass(intermediate_stem) ==
  IF Len(intermediate_stem) = 0 THEN Raise("IndexError")
  ELSE LET final_letter == At(intermediate_stem, -1)
       IN ApplyFirstPossibleRule(intermediate_stem, <<
            Rule(<<"a", "t">>, <<"a", "t", "e">>, NoCondition),
            Rule(<<"b", "l">>, <<"b", "l", "e">>, NoCondition),
            Rule(<<"i", "z">>, <<"i", "z", "e">>, NoCondition),
            Rule(<<final_letter, final_letter>>, <<final_letter>>,
                 [kind |-> "FinalLetterNotLSZ", final_letter |-> final_letter]),
            Rule(<<>>, <<"e">>, [kind |-> "Measure1AndEndsCvc"])>>)

Step1b(w) ==
  LET ied == ReplaceSuffixIf(w, <<"i", "e", "d">>, <<"i", "e">>, [kind |-> "LenWordIs4", word |-> w])
      eed == ReplaceSuffixIf(w, <<"e", "e", "d">>, <<"e", "e">>, [kind |-> "MeasureGt0"])
      r23 == Step1bRule2Or3(w)
  IN IF ied.exc # "CannotReplaceSuffix" THEN ied
     ELSE IF eed.exc # "CannotReplaceSuffix" THEN eed
     ELSE IF r23.exc = "CannotReplaceSuffix" THEN Ok(w)
     ELSE IF r23.exc # "none" THEN r23
     ELSE Step1bSecondPass(r23.val)

Step1c(w) ==
  IF Len(w) = 0 THEN Raise("IndexError")
  ELSE IF At(w, -1) = "y" /\ Len(w) > 2 /\ Cons(w, Len(w) - 2)
       THEN Ok(SliceTo(w, -1) \o <<"i">>)
       ELSE Ok(w)

\* mutant of Step2: the alli rule returns the shortened word without running
\* step 2 on it again
Step2NoReinvoke(w) ==
  IF Len(w) <= 1 THEN Ok(w)
  ELSE LET ch == At(w, -2) IN
    CASE ch = "a" ->
        IF EndsWith(w, <<"a", "t", "i", "o", "n", "a", "l">>)
        THEN (IF M(w, Len(w) - 8) > 0 THEN Ok(SliceTo(w, -7) \o <<"a", "t", "e">>) ELSE Ok(w))
        ELSE IF EndsWith(w, <<"t", "i", "o", "n", "a", "l">>)
        THEN (IF M(w, Len(w) - 7) > 0 THEN Ok(SliceTo(w, -2)) ELSE Ok(w))
        ELSE Ok(w)
      [] ch = "c" ->
        IF EndsWith(w, <<"e", "n", "c", "i">>)
        THEN (IF M(w, Len(w) - 5) > 0 THEN Ok(SliceTo(w, -4) \o <<"e", "n", "c", "e">>) ELSE Ok(w))
        ELSE IF EndsWith(w, <<"a", "n", "c", "i">>)
        THEN (IF M(w, Len(w) - 5) > 0 THEN Ok(SliceTo(w, -4) \o <<"a", "n", "c", "e">>) ELSE Ok(w))
        ELSE Ok(w)
      [] ch = "e" ->
        IF EndsWith(w, <<"i", "z", "e", "r">>)
        THEN (IF M(w, Len(w) - 5) > 0 THEN Ok(SliceTo(w, -1)) ELSE Ok(w))
        ELSE Ok(w)
      [] ch = "l" ->
        IF EndsWith(w, <<"b", "l", "i">>)
        THEN (IF M(w, Len(w) - 4) > 0 THEN Ok(SliceTo(w, -3) \o <<"b", "l", "e">>) ELSE Ok(w))
        ELSE IF EndsWith(w, <<"a", "l", "l", "i">>)
        THEN (IF M(w, Len(w) - 5) > 0 THEN Ok(SliceTo(w, -2)) ELSE Ok(w))
        ELSE IF EndsWith(w, <<"f", "u", "l", "l", "i">>)
        THEN (IF M(w, Len(w) - 6) # 0 THEN Ok(SliceTo(w, -2)) ELSE Ok(w))
        ELSE IF EndsWith(w, <<"e", "n", "t", "l", "i">>)
        THEN (IF M(w, Len(w) - 6) # 0 THEN Ok(SliceTo(w, -2)) ELSE Ok(w))
        ELSE IF EndsWith(w, <<"e", "l", "i">>)
        THEN (IF M(w, Len(w) - 4) # 0 THEN Ok(SliceTo(w, -2)) ELSE Ok(w))
        ELSE IF EndsWith(w, <<"o", "u", "s", "l", "i">>)
        THEN (IF M(w, Len(w) - 6) # 0 THEN Ok(SliceTo(w, -2)) ELSE Ok(w))
        ELSE Ok(w)
      [] ch = "o" ->
        IF EndsWith(w, <<"i", "z", "a", "t", "i", "o", "n">>)
        THEN (IF M(w, Len(w) - 8) # 0 THEN Ok(SliceTo(w, -7) \o <<"i", "z", "e">>) ELSE Ok(w))
        ELSE IF EndsWith(w, <<"a", "t", "i", "o", "n">>)
        THEN (IF M(w, Len(w) - 6) # 0 THEN Ok(SliceTo(w, -5) \o <<"a", "t", "e">>) ELSE Ok(w))
        ELSE IF EndsWith(w, <<"a", "t", "o", "r">>)
        THEN (IF M(w, Len(w) - 5) # 0 THEN Ok(SliceTo(w, -4) \o <<"a", "t", "e">>) ELSE Ok(w))
        ELSE Ok(w)
      [] ch = "s" ->
        IF EndsWith(w, <<"a", "l", "i", "s", "m">>)
        THEN (IF M(w, Len(w) - 6) # 0 THEN Ok(SliceTo(w, -3)) ELSE Ok(w))
        ELSE IF EndsWith(w, <<"n", "e", "s", "s">>)
        THEN (IF EndsWith(w, <<"i", "v", "e", "n", "e", "s", "s">>)
              THEN (IF M(w, Len(w) - 8) # 0 THEN Ok(SliceTo(w, -4)) ELSE Ok(w))
              ELSE IF EndsWith(w, <<"f", "u", "l", "n", "e", "s", "s">>)
              THEN (IF M(w, Len(w) - 8) # 0 THEN Ok(SliceTo(w, -4)) ELSE Ok(w))
              ELSE IF EndsWith(w, <<"o", "u", "s", "n", "e", "s", "s">>)
              THEN (IF M(w, Len(w) - 8) # 0 THEN Ok(SliceTo(w, -4)) ELSE Ok(w))
              ELSE Ok(w))
        ELSE Ok(w)
      [] ch = "t" ->
        IF EndsWith(w, <<"a", "l", "i", "t", "i">>)
        THEN (IF M(w, Len(w) - 6) # 0 THEN Ok(SliceTo(w, -3)) ELSE Ok(w))
        ELSE IF EndsWith(w, <<"i", "v", "i", "t", "i">>)
        THEN (IF M(w, Len(w) - 6) # 0 THEN Ok(SliceTo(w, -5) \o <<"i", "v", "e">>) ELSE Ok(w))
        ELSE IF EndsWith(w, <<"b", "i", "l", "i", "t", "i">>)
        THEN (IF M(w, Len(w) - 7) # 0 THEN Ok(SliceTo(w, -6) \o <<"b", "l", "e">>) ELSE Ok(w))
        ELSE Ok(w)
      [] ch = "g" ->
        IF EndsWith(w, <<"l", "o", "g", "i">>)
        THEN (IF M(w, Len(w) - 4) # 0 THEN Ok(SliceTo(w, -1)) ELSE Ok(w))
        ELSE Ok(w)
      [] OTHER -> Ok(w)

RECURSIVE Step2(_)
Step2(w) ==
  IF Len(w) <= 1 THEN Ok(w)
  ELSE LET ch == At(w, -2) IN
    CASE ch = "a" ->
        IF EndsWith(w, <<"a", "t", "i", "o", "n", "a", "l">>)
        THEN (IF M(w, Len(w) - 8) > 0 THEN Ok(SliceTo(w, -7) \o <<"a", "t", "e">>) ELSE Ok(w))
        ELSE IF EndsWith(w, <<"t", "i", "o", "n", "a", "l">>)
        THEN (IF M(w, Len(w) - 7) > 0 THEN Ok(SliceTo(w, -2)) ELSE Ok(w))
        ELSE Ok(w)
      [] ch = "c" ->
        IF EndsWith(w, <<"e", "n", "c", "i">>)
        THEN (IF M(w, Len(w) - 5) > 0 THEN Ok(SliceTo(w, -4) \o <<"e", "n", "c", "e">>) ELSE Ok(w))
        ELSE IF EndsWith(w, <<"a", "n", "c", "i">>)
        THEN (IF M(w, Len(w) - 5) > 0 THEN Ok(SliceTo(w, -4) \o <<"a", "n", "c", "e">>) ELSE Ok(w))
        ELSE Ok(w)
      [] ch = "e" ->
        IF EndsWith(w, <<"i", "z", "e", "r">>)
        THEN (IF M(w, Len(w) - 5) > 0 THEN Ok(SliceTo(w, -1)) ELSE Ok(w))
        ELSE Ok(w)
      [] ch = "l" ->
        IF EndsWith(w, <<"b", "l", "i">>)
        THEN (IF M(w, Len(w) - 4) > 0 THEN Ok(SliceTo(w, -3) \o <<"b", "l", "e">>) ELSE Ok(w))
        ELSE IF EndsWith(w, <<"a", "l", "l", "i">>)
        THEN (IF M(w, Len(w) - 5) > 0 THEN Step2(SliceTo(w, -2)) ELSE Ok(w))
        ELSE IF EndsWith(w, <<"f", "u", "l", "l", "i">>)
        THEN (IF M(w, Len(w) - 6) # 0 THEN Ok(SliceTo(w, -2)) ELSE Ok(w))
        ELSE IF EndsWith(w, <<"e", "n", "t", "l", "i">>)
        THEN (IF M(w, Len(w) - 6) # 0 THEN Ok(SliceTo(w, -2)) ELSE Ok(w))
        ELSE IF EndsWith(w, <<"e", "l", "i">>)
        THEN (IF M(w, Len(w) - 4) # 0 THEN Ok(SliceTo(w, -2)) ELSE Ok(w))
        ELSE IF EndsWith(w, <<"o", "u", "s", "l", "i">>)
        THEN (IF M(w, Len(w) - 6) # 0 THEN Ok(SliceTo(w, -2)) ELSE Ok(w))
        ELSE Ok(w)
      [] ch = "o" ->
        IF EndsWith(w, <<"i", "z", "a", "t", "i", "o", "n">>)
        THEN (IF M(w, Len(w) - 8) # 0 THEN Ok(SliceTo(w, -7) \o <<"i", "z", "e">>) ELSE Ok(w))
        ELSE IF EndsWith(w, <<"a", "t", "i", "o", "n">>)
        THEN (IF M(w, Len(w) - 6) # 0 THEN Ok(SliceTo(w, -5) \o <<"a", "t", "e">>) ELSE Ok(w))
        ELSE IF EndsWith(w, <<"a", "t", "o", "r">>)
        THEN (IF M(w, Len(w) - 5) # 0 THEN Ok(SliceTo(w, -4) \o <<"a", "t", "e">>) ELSE Ok(w))
        ELSE Ok(w)
      [] ch = "s" ->
        IF EndsWith(w, <<"a", "l", "i", "s", "m">>)
        THEN (IF M(w, Len(w) - 6) # 0 THEN Ok(SliceTo(w, -3)) ELSE Ok(w))
        ELSE IF EndsWith(w, <<"n", "e", "s", "s">>)
        THEN (IF EndsWith(w, <<"i", "v", "e", "n", "e", "s", "s">>)
              THEN (IF M(w, Len(w) - 8) # 0 THEN Ok(SliceTo(w, -4)) ELSE Ok(w))
              ELSE IF EndsWith(w, <<"f", "u", "l", "n", "e", "s", "s">>)
              THEN (IF M(w, Len(w) - 8) # 0 THEN Ok(SliceTo(w, -4)) ELSE Ok(w))
              ELSE IF EndsWith(w, <<"o", "u", "s", "n", "e", "s", "s">>)
              THEN (IF M(w, Len(w) - 8) # 0 THEN Ok(SliceTo(w, -4)) ELSE Ok(w))
              ELSE Ok(w))
        ELSE Ok(w)
      [] ch = "t" ->
        IF EndsWith(w, <<"a", "l", "i", "t", "i">>)
        THEN (IF M(w, Len(w) - 6) # 0 THEN Ok(SliceTo(w, -3)) ELSE Ok(w))
        ELSE IF EndsWith(w, <<"i", "v", "i", "t", "i">>)
        THEN (IF M(w, Len(w) - 6) # 0 THEN Ok(SliceTo(w, -5) \o <<"i", "v", "e">>) ELSE Ok(w))
        ELSE IF EndsWith(w, <<"b", "i", "l", "i", "t", "i">>)
        THEN (IF M(w, Len(w) - 7) # 0 THEN Ok(SliceTo(w, -6) \o <<"b", "l", "e">>) ELSE Ok(w))
        ELSE Ok(w)
      [] ch = "g" ->
        IF EndsWith(w, <<"l", "o", "g", "i">>)
        THEN (IF M(w, Len(w) - 4) # 0 THEN Ok(SliceTo(w, -1)) ELSE Ok(w))
        ELSE Ok(w)
      [] OTHER -> Ok(w)

\* the alli rule of _step2 is reached by w and its condition holds
Step2AlliSucceeds(w) ==
  /\ Len(w) > 1
  /\ At(w, -2) = "l"
  /\ ~EndsWith(w, <<"b", "l", "i">>)
  /\ EndsWith(w, <<"a", "l", "l", "i">>)
  /\ M(w, Len(w) - 5) > 0

RECURSIVE Step2Invocations(_)
\* the number of times _step2 is entered by the call _step2(w)
Step2Invocations(w) ==
  IF Step2AlliSucceeds(w) THEN 1 + Step2Invocations(SliceTo(w, -2)) ELSE 1

Step3(w) ==
  IF Len(w) = 0 THEN Raise("IndexError")
  ELSE LET ch == At(w, -1) IN
    CASE ch = "e" ->
        IF EndsWith(w, <<"i", "c", "a", "t", "e">>)
        THEN (IF M(w, Len(w) - 6) # 0 THEN Ok(SliceTo(w, -3)) ELSE Ok(w))
        ELSE IF EndsWith(w, <<"a", "t", "i", "v", "e">>)
        THEN (IF M(w, Len(w) - 6) # 0 THEN Ok(SliceTo(w, -5)) ELSE Ok(w))
        ELSE IF EndsWith(w, <<"a", "l", "i", "z", "e">>)
        THEN (IF M(w, Len(w) - 6) # 0 THEN Ok(SliceTo(w, -3)) ELSE Ok(w))
        ELSE Ok(w)
      [] ch = "i" ->
        IF EndsWith(w, <<"i", "c", "i", "t", "i">>)
        THEN (IF M(w, Len(w) - 6) # 0 THEN Ok(SliceTo(w, -3)) ELSE Ok(w))
        ELSE Ok(w)
      [] ch = "l" ->
        IF EndsWith(w, <<"i", "c", "a", "l">>)
        THEN (IF M(w, Len(w) - 5) # 0 THEN Ok(SliceTo(w, -2)) ELSE Ok(w))
        ELSE IF EndsWith(w, <<"f", "u", "l">>)
        THEN (IF M(w, Len(w) - 4) # 0 THEN Ok(SliceTo(w, -3)) ELSE Ok(w))
        ELSE Ok(w)
      [] ch = "s" ->
        IF EndsWith(w, <<"n", "e", "s", "s">>)
        THEN (IF M(w, Len(w) - 5) # 0 THEN Ok(SliceTo(w, -4)) ELSE Ok(w))
        ELSE Ok(w)
      [] OTHER -> Ok(w)

\* mutant of Step4Strip: the measure is tested > 0, as in steps 2 and 3
Step4StripMeasureGt0(w, cut, j) == IF M(w, j) > 0 THEN Ok(SliceTo(w, -cut)) ELSE Ok(w)

\* the shape shared by the rules of _step4: word[:-cut] if _m(word, j) > 1 else word
Step4Strip(w, cut, j) == IF M(w, j) > 1 THEN Ok(SliceTo(w, -cut)) ELSE Ok(w)

Step4(w) ==
  IF Len(w) <= 1 THEN Ok(w)
  ELSE LET ch == At(w, -2) IN
    CASE ch = "a" ->
        IF EndsWith(w, <<"a", "l">>) THEN Step4Strip(w, 2, Len(w) - 3) ELSE Ok(w)
      [] ch = "c" ->
        IF EndsWith(w, <<"a", "n", "c", "e">>) THEN Step4Strip(w, 4, Len(w) - 5)
        ELSE IF EndsWith(w, <<"e", "n", "c", "e">>) THEN Step4Strip(w, 4, Len(w) - 5)
        ELSE Ok(w)
      [] ch = "e" ->
        IF EndsWith(w, <<"e", "r">>) THEN Step4Strip(w, 2, Len(w) - 3) ELSE Ok(w)
      [] ch = "i" ->
        IF EndsWith(w, <<"i", "c">>) THEN Step4Strip(w, 2, Len(w) - 3) ELSE Ok(w)
      [] ch = "l" ->
        IF EndsWith(w, <<"a", "b", "l", "e">>) THEN Step4Strip(w, 4, Len(w) - 5)
        ELSE IF EndsWith(w, <<"i", "b", "l", "e">>) THEN Step4Strip(w, 4, Len(w) - 5)
        ELSE Ok(w)
      [] ch = "n" ->
        IF EndsWith(w, <<"a", "n", "t">>) THEN Step4Strip(w, 3, Len(w) - 4)
        ELSE IF EndsWith(w, <<"e", "m", "e", "n", "t">>) THEN Step4Strip(w, 5, Len(w) - 6)
        ELSE IF EndsWith(w, <<"m", "e", "n", "t">>) THEN Step4Strip(w, 4, Len(w) - 5)
        ELSE IF EndsWith(w, <<"e", "n", "t">>) THEN Step4Strip(w, 3, Len(w) - 4)
        ELSE Ok(w)
      [] ch = "o" ->
        IF EndsWith(w, <<"s", "i", "o", "n">>) \/ EndsWith(w, <<"t", "i", "o", "n">>)
        THEN Step4Strip(w, 3, Len(w) - 4)
        ELSE IF EndsWith(w, <<"o", "u">>) THEN Step4Strip(w, 2, Len(w) - 3)
        ELSE Ok(w)
      [] ch = "s" ->
        IF EndsWith(w, <<"i", "s", "m">>) THEN Step4Strip(w, 3, Len(w) - 4) ELSE Ok(w)
      [] ch = "t" ->
        IF EndsWith(w, <<"a", "t", "e">>) THEN Step4Strip(w, 3, Len(w) - 4)
        ELSE IF EndsWith(w, <<"i", "t", "i">>) THEN Step4Strip(w, 3, Len(w) - 4)
        ELSE Ok(w)
      [] ch = "u" ->
        IF EndsWith(w, <<"o", "u", "s">>) THEN Step4Strip(w, 3, Len(w) - 4) ELSE Ok(w)
      [] ch = "v" ->
        IF EndsWith(w, <<"i", "v", "e">>) THEN Step4Strip(w, 3, Len(w) - 4) ELSE Ok(w)
      [] ch = "z" ->
        IF EndsWith(w, <<"i", "z", "e">>) THEN Step4Strip(w, 3, Len(w) - 4) ELSE Ok(w)
      [] OTHER -> Ok(w)

\* the first if of _step5: the final -e
Step5a(w) ==
  IF At(w, -1) = "e"
  THEN LET a == M(w, Len(w) - 1)
       IN IF a > 1 \/ (a = 1 /\ ~Cvc(w, Len(w) - 2)) THEN SliceTo(w, -1) ELSE w
  ELSE w

\* the second if of _step5: -ll
Step5b(w) ==
  IF EndsWith(w, <<"l", "l">>) /\ M(w, Len(w) - 1) > 1 THEN SliceTo(w, -1) ELSE w

Step5(w) ==
  IF Len(w) = 0 THEN Raise("IndexError")
  ELSE Ok(Step5b(Step5a(w)))

----------------------------------------------------------------------------
\* Construction

\* the names the class body of PorterStemmer binds
ClassAttributes ==
  {"__init__", "_cons", "_m", "_measure", "_vowelinstem", "_doublec", "_ends_cvc",
   "_cvc", "_replace_suffix", "_replace_suffix_if", "_apply_first_possible_rule",
   "_step1a", "_step1b", "_step1c", "_step2", "_step3", "_step4", "_step5",
   "stem", "__repr__"}

\* the keyword parameters of def __init__(self)
InitKeywords == {}

\* PorterStemmer(k=PorterStemmer.a, ...) for the keywords k and the class
\* attributes a read to build the arguments: the exception raised, or "none"
NewStemmer(keywords, attributes) ==
  IF ~(attributes \subseteq ClassAttributes) THEN "AttributeError"
  ELSE IF ~(keywords \subseteq InitKeywords) THEN "TypeError"
  ELSE "none"

\* the constructor calls made: PorterStemmer() and the unit test's
\* PorterStemmer(mode=PorterStemmer.MARTIN_EXTENSIONS)
ConstructorCalls ==
  {[keywords |-> {}, attributes |-> {}],
   [keywords |-> {"mode"}, attributes |-> {"MARTIN_EXTENSIONS"}]}

----------------------------------------------------------------------------
\* The inputs

Alphabet == {"e", "d", "i", "s", "y", "l", "n", "g", "S"}

AlphabetWords == UNION {[1..n -> Alphabet] : n \in 0..MaxLen}

ExtraWords ==
  {<<"s", "k", "y">>, <<"s", "k", "i", "e", "s">>, <<"S", "k", "i", "e", "s">>, <<"d", "y", "i", "n", "g">>, <<"l", "y", "i", "n", "g">>, <<"t", "y", "i", "n", "g">>, <<"n", "e", "w", "s">>, <<"p", "r", "o", "c", "e", "e", "d">>, <<"h", "o", "w", "e">>,
   <<"i", "n", "n", "i", "n", "g", "s">>, <<"i", "s">>, <<"a">>, <<"I", "S">>, <<"f", "i", "l", "i", "n", "g">>, <<"f", "a", "i", "l", "i", "n", "g">>, <<"f", "e", "e", "d">>, <<"a", "g", "r", "e", "e", "d">>, <<"s", "e", "e", "i", "n", "g">>,
   <<"r", "e", "l", "a", "t", "i", "o", "n", "a", "l">>, <<"c", "o", "n", "d", "i", "t", "i", "o", "n", "a", "l">>, <<"t", "r", "i", "p", "l", "i", "c", "a", "t", "e">>, <<"e", "l", "e", "c", "t", "r", "i", "c", "a", "l">>, <<"h", "o", "p", "e", "f", "u", "l", "n", "e", "s", "s">>,
   <<"a", "d", "j", "u", "s", "t", "a", "b", "l", "e">>, <<"c", "o", "n", "t", "r", "o", "l", "l">>, <<"r", "o", "l", "l">>, <<"c", "o", "n", "f", "l", "a", "t", "e", "d">>, <<"t", "r", "o", "u", "b", "l", "e", "d">>, <<"h", "o", "p", "p", "i", "n", "g">>,
   <<"f", "a", "l", "l", "i", "n", "g">>, <<"s", "i", "z", "e", "d">>, <<"c", "a", "r", "e", "s", "s", "e", "s">>, <<"p", "o", "n", "i", "e", "s">>, <<"t", "i", "e", "s">>, <<"c", "a", "t", "s">>, <<"h", "a", "p", "p", "y">>, <<"e", "n", "j", "o", "y">>,
   <<"i", "n", "g">>, <<"s", "i", "n", "g">>, <<"b", "l", "e", "d">>, <<"r", "a", "t", "i", "o", "n", "a", "l", "l", "y">>, <<"g", "e", "n", "e", "r", "a", "l", "i", "z", "a", "t", "i", "o", "n">>, <<"s", "e", "n", "s", "i", "b", "i", "l", "i", "t", "i">>,
   <<"a", "r", "c", "h", "a", "e", "o", "l", "o", "g", "i">>, <<"v", "a", "l", "e", "n", "c", "i">>, <<"d", "i", "g", "i", "t", "i", "z", "e", "r">>, <<"h", "o", "p", "e", "f", "u", "l", "l", "i">>, <<"d", "i", "f", "f", "e", "r", "e", "n", "t", "l", "i">>, <<"v", "i", "l", "e", "l", "i">>,
   <<"a", "n", "a", "l", "o", "g", "o", "u", "s", "l", "i">>, <<"o", "p", "e", "r", "a", "t", "o", "r">>, <<"f", "e", "u", "d", "a", "l", "i", "s", "m">>, <<"d", "e", "c", "i", "s", "i", "v", "e", "n", "e", "s", "s">>, <<"c", "a", "l", "l", "o", "u", "s", "n", "e", "s", "s">>,
   <<"f", "o", "r", "m", "a", "l", "i", "t", "i">>, <<"s", "e", "n", "s", "i", "t", "i", "v", "i", "t", "i">>, <<"f", "o", "r", "m", "a", "t", "i", "v", "e">>, <<"f", "o", "r", "m", "a", "l", "i", "z", "e">>, <<"e", "l", "e", "c", "t", "r", "i", "c", "i", "t", "i">>,
   <<"g", "o", "o", "d", "n", "e", "s", "s">>, <<"r", "e", "v", "i", "v", "a", "l">>, <<"a", "l", "l", "o", "w", "a", "n", "c", "e">>, <<"i", "n", "f", "e", "r", "e", "n", "c", "e">>, <<"a", "i", "r", "l", "i", "n", "e", "r">>, <<"g", "y", "r", "o", "s", "c", "o", "p", "i", "c">>,
   <<"d", "e", "f", "e", "n", "s", "i", "b", "l", "e">>, <<"i", "r", "r", "i", "t", "a", "n", "t">>, <<"r", "e", "p", "l", "a", "c", "e", "m", "e", "n", "t">>, <<"a", "d", "j", "u", "s", "t", "m", "e", "n", "t">>, <<"d", "e", "p", "e", "n", "d", "e", "n", "t">>,
   <<"a", "d", "o", "p", "t", "i", "o", "n">>, <<"h", "o", "m", "o", "l", "o", "g", "o", "u">>, <<"c", "o", "m", "m", "u", "n", "i", "s", "m">>, <<"a", "c", "t", "i", "v", "a", "t", "e">>, <<"a", "n", "g", "u", "l", "a", "r", "i", "t", "i">>,
   <<"h", "o", "m", "o", "l", "o", "g", "o", "u", "s">>, <<"e", "f", "f", "e", "c", "t", "i", "v", "e">>, <<"b", "o", "w", "d", "l", "e", "r", "i", "z", "e">>, <<"h", "e", "s", "i", "t", "a", "n", "c", "i">>, <<"r", "a", "t", "i", "o", "n", "a", "l">>,
   <<"p", "r", "e", "d", "i", "c", "a", "t", "i", "o", "n">>, <<"c", "o", "n", "f", "o", "r", "m", "a", "b", "l", "i">>, <<"r", "a", "d", "i", "c", "a", "l", "l", "i">>, <<"c", "o", "n", "d", "i", "t", "i", "o", "n", "a", "l", "l", "y">>,
   <<"o", "p", "e", "r", "a", "t", "i", "o", "n", "a", "l", "l", "y">>, <<"c", "a", "l", "l", "i">>, <<"i", "c", "e">>, <<"a", "r", "e">>, <<"o", "w", "e">>, <<"c", "e", "a", "s", "e">>, <<"r", "a", "t", "e">>, <<"f", "r", "e", "e", "i", "n", "g">>,
   <<"t", "a", "n", "n", "e", "d">>, <<"h", "i", "s", "s", "i", "n", "g">>, <<"f", "i", "z", "z", "e", "d">>}

\* words that reach the alli rule of step 2: a short prefix and an -alli ending
AlliWords ==
  {p \o s : p \in UNION {[1..n -> Alphabet] : n \in 0..(MaxLen - 2)},
            s \in {<<"a", "l", "l", "i">>, <<"a", "l", "l", "y">>, <<"a", "t", "i", "o", "n", "a", "l", "l", "i">>, <<"t", "i", "o", "n", "a", "l", "l", "i">>, <<"i", "c", "a", "l", "l", "i">>}}

Words == AlphabetWords \cup ExtraWords \cup AlliWords

\* the words the threads of SpecConc stem
ConcWords == {<<"s", "k", "i", "e", "s">>, <<"S", "k", "i", "e", "s">>, <<"i", "s">>, <<"h", "o", "p", "p", "i", "n", "g">>, <<"a", "g", "r", "e", "e", "d">>}

----------------------------------------------------------------------------
\* stem(word), one thread t: the position pc[t] and the locals word, stem

\* mutant of LookupKey: the lowercased word is looked up
LookupKeyLowered(w, s) == s

\* the key stem looks up in self.pool
LookupKey(w, s) == w

\* mutant of ShortReturn: the lowercased word is returned
ShortReturnLowered(w, s) == s

\* what stem returns for a word of length <= 2
ShortReturn(w, s) == w

Init ==
  /\ pool = BuildPool(IrregularForms)
  /\ vowels = BuildVowels
  /\ ctorExc = "none"
  /\ pc = [t \in Threads |-> "idle"]
  /\ word = [t \in Threads |-> <<>>]
  /\ stem = [t \in Threads |-> <<>>]
  /\ before = [t \in Threads |-> <<>>]
  /\ path = [t \in Threads |-> <<>>]
  /\ result = [t \in Threads |-> <<>>]
  /\ exc = [t \in Threads |-> "none"]

Construct ==
  /\ \A t \in Threads : pc[t] = "idle"
  /\ \E c \in ConstructorCalls :
       LET e == NewStemmer(c.keywords, c.attributes)
       IN /\ ctorExc' = e
          /\ IF e = "none"
             THEN pool' = BuildPool(IrregularForms) /\ vowels' = BuildVowels
             ELSE UNCHANGED <<pool, vowels>>
  /\ UNCHANGED <<pc, word, stem, before, path, result, exc>>

Call(t, inputs) ==
  /\ pc[t] = "idle"
  /\ ctorExc = "none"
  /\ \E w \in inputs :
       /\ word' = [word EXCEPT ![t] = w]
       /\ stem' = [stem EXCEPT ![t] = Lower(w)]
  /\ pc' = [pc EXCEPT ![t] = "lookup"]
  /\ UNCHANGED <<pool, vowels, ctorExc, before, path, result, exc>>

Lookup(t) ==
  /\ pc[t] = "lookup"
  /\ IF LookupKey(word[t], stem[t]) \in DOMAIN pool
     THEN /\ result' = [result EXCEPT ![t] = pool[LookupKey(word[t], stem[t])]]
          /\ path' = [path EXCEPT ![t] = <<"pool">>]
          /\ pc' = [pc EXCEPT ![t] = "done"]
     ELSE /\ pc' = [pc EXCEPT ![t] = "guard"]
          /\ UNCHANGED <<result, path>>
  /\ UNCHANGED <<pool, vowels, ctorExc, word, stem, before, exc>>

LengthGuard(t) ==
  /\ pc[t] = "guard"
  /\ IF Len(word[t]) <= 2
     THEN /\ result' = [result EXCEPT ![t] = ShortReturn(word[t], stem[t])]
          /\ path' = [path EXCEPT ![t] = <<"short">>]
          /\ pc' = [pc EXCEPT ![t] = "done"]
     ELSE /\ pc' = [pc EXCEPT ![t] = "step1a"]
          /\ UNCHANGED <<result, path>>
  /\ UNCHANGED <<pool, vowels, ctorExc, word, stem, before, exc>>

\* mutant of RunStep: the intermediate stem is kept on the instance, one for all threads
RunStepSharedStem(t, from, to, r) ==
  /\ pc[t] = from
  /\ before' = [before EXCEPT ![t] = stem[t]]
  /\ IF r.exc = "none"
     THEN /\ stem' = [u \in Threads |-> r.val]
          /\ path' = [path EXCEPT ![t] = Append(path[t], from)]
          /\ pc' = [pc EXCEPT ![t] = to]
          /\ UNCHANGED exc
     ELSE /\ exc' = [exc EXCEPT ![t] = r.exc]
          /\ pc' = [pc EXCEPT ![t] = "raised"]
          /\ UNCHANGED <<stem, path>>
  /\ UNCHANGED <<pool, vowels, ctorExc, word, result>>

\* stem = self._stepN(stem): r is what the call returned or raised
RunStep(t, from, to, r) ==
  /\ pc[t] = from
  /\ before' = [before EXCEPT ![t] = stem[t]]
  /\ IF r.exc = "none"
     THEN /\ stem' = [stem EXCEPT ![t] = r.val]
          /\ path' = [path EXCEPT ![t] = Append(path[t], from)]
          /\ pc' = [pc EXCEPT ![t] = to]
          /\ UNCHANGED exc
     ELSE /\ exc' = [exc EXCEPT ![t] = r.exc]
          /\ pc' = [pc EXCEPT ![t] = "raised"]
          /\ UNCHANGED <<stem, path>>
  /\ UNCHANGED <<pool, vowels, ctorExc, word, result>>

DoStep1a(t) == RunStep(t, "step1a", "step1b", Step1a(stem[t]))

DoStep1b(t) == RunStep(t, "step1b", "step1c", Step1b(stem[t]))

DoStep1c(t) == RunStep(t, "step1c", "step2", Step1c(stem[t]))

DoStep2(t) == RunStep(t, "step2", "step3", Step2(stem[t]))

DoStep3(t) == RunStep(t, "step3", "step4", Step3(stem[t]))

DoStep4(t) == RunStep(t, "step4", "step5", Step4(stem[t]))

DoStep5(t) == RunStep(t, "step5", "return", Step5(stem[t]))

Return(t) ==
  /\ pc[t] = "return"
  /\ result' = [result EXCEPT ![t] = stem[t]]
  /\ pc' = [pc EXCEPT ![t] = "done"]
  /\ UNCHANGED <<pool, vowels, ctorExc, word, stem, before, path, exc>>

\* the call is over: its locals are gone
Finish(t) ==
  /\ pc[t] \in {"done", "raised"}
  /\ pc' = [pc EXCEPT ![t] = "idle"]
  /\ word' = [word EXCEPT ![t] = <<>>]
  /\ stem' = [stem EXCEPT ![t] = <<>>]
  /\ before' = [before EXCEPT ![t] = <<>>]
  /\ path' = [path EXCEPT ![t] = <<>>]
  /\ result' = [result EXCEPT ![t] = <<>>]
  /\ exc' = [exc EXCEPT ![t] = "none"]
  /\ UNCHANGED <<pool, vowels, ctorExc>>

Stem(t, inputs) ==
  \/ Call(t, inputs)
  \/ Lookup(t)
  \/ LengthGuard(t)
  \/ DoStep1a(t)
  \/ DoStep1b(t)
  \/ DoStep1c(t)
  \/ DoStep2(t)
  \/ DoStep3(t)
  \/ DoStep4(t)
  \/ DoStep5(t)
  \/ Return(t)
  \/ Finish(t)

\* one caller, every input word
Next == \E t \in MainThread : Stem(t, Words)

Spec == Init /\ [][Next]_vars

\* the stemmer constructed and then shared by the threads
NextConc == Construct \/ \E t \in Threads : Stem(t, ConcWords)

SpecConc == Init /\ [][NextConc]_vars

\* stem(word) run alone, start to end, on the instance as it stands
RECURSIVE Pipeline(_, _)
Pipeline(s, k) ==
  IF k = 0 THEN Ok(s)
  ELSE LET r == Pipeline(s, k - 1)
       IN IF r.exc # "none" THEN r
          ELSE CASE k = 1 -> Step1a(r.val)
                 [] k = 2 -> Step1b(r.val)
                 [] k = 3 -> Step1c(r.val)
                 [] k = 4 -> Step2(r.val)
                 [] k = 5 -> Step3(r.val)
                 [] k = 6 -> Step4(r.val)
                 [] k = 7 -> Step5(r.val)

StemAlone(w) ==
  IF w \in DOMAIN pool THEN Ok(pool[w])
  ELSE IF Len(w) <= 2 THEN Ok(w)
  ELSE Pipeline(Lower(w), 7)

----------------------------------------------------------------------------
\* Properties

IsSurfaceForm(w) ==
  \E p \in DOMAIN IrregularForms :
    \E i \in 1..Len(IrregularForms[p]) : IrregularForms[p][i] = w

ParadigmOf(w) ==
  CHOOSE p \in DOMAIN IrregularForms :
    \E i \in 1..Len(IrregularForms[p]) : IrregularForms[p][i] = w

AllSteps == <<"step1a", "step1b", "step1c", "step2", "step3", "step4", "step5">>

\* stem(w) = r for every finished call on w
Stems(w, r) == \A t \in Threads : pc[t] = "done" /\ word[t] = w => result[t] = r

\* some finished call on w returned r
Stemmed(w, r) == \E t \in Threads : pc[t] = "done" /\ word[t] = w /\ result[t] = r

\* step 1b maps w to r, for every call that has just run step 1b
Step1bMaps(w, r) ==
  \A t \in Threads : pc[t] = "step1c" /\ before[t] = w => stem[t] = r

\* C1: stem(w) returns the irregular table's paradigm for w, no step applied,
\* exactly when w as given (case kept) is a surface form of the table; every other
\* word goes through the length guard or all seven steps. skies, dying, lying,
\* tying, news and proceed return sky, die, lie, tie, news and proceed.
C1_IrregularBypass ==
  /\ \A t \in Threads :
       pc[t] = "done" =>
         /\ IsSurfaceForm(word[t]) <=> path[t] = <<"pool">>
         /\ IsSurfaceForm(word[t]) => result[t] = ParadigmOf(word[t])
         /\ ~IsSurfaceForm(word[t]) => path[t] \in {<<"short">>, AllSteps}
  /\ Stems(<<"s", "k", "i", "e", "s">>, <<"s", "k", "y">>)
  /\ Stems(<<"d", "y", "i", "n", "g">>, <<"d", "i", "e">>)
  /\ Stems(<<"l", "y", "i", "n", "g">>, <<"l", "i", "e">>)
  /\ Stems(<<"t", "y", "i", "n", "g">>, <<"t", "i", "e">>)
  /\ Stems(<<"n", "e", "w", "s">>, <<"n", "e", "w", "s">>)
  /\ Stems(<<"p", "r", "o", "c", "e", "e", "d">>, <<"p", "r", "o", "c", "e", "e", "d">>)

C1_Witness ==
  \E t \in Threads :
    pc[t] = "done" /\ word[t] = <<"s", "k", "i", "e", "s">> /\ result[t] = <<"s", "k", "y">> /\ path[t] = <<"pool">>

\* C2: stem is total on strings of letters: no call ends in an exception, be it
\* _CannotReplaceSuffix, the assertion of _replace_suffix or an IndexError.
C2_Total == \A t \in Threads : pc[t] # "raised" /\ exc[t] = "none"

\* a call on 'sing' has returned: its ING rule raised _CannotReplaceSuffix inside
C2_Witness ==
  /\ Stemmed(<<"s", "i", "n", "g">>, <<"s", "i", "n", "g">>)
  /\ Step1bRule2Or3(<<"s", "i", "n", "g">>).exc = "CannotReplaceSuffix"

\* the case of C3: ED or ING was stripped from w leaving s, none of the at, bl, iz
\* and double-letter rules applies to s, and s has measure 1 and ends cvc
C3_Case(w, s) ==
  /\ ReplaceSuffixIf(w, <<"i", "e", "d">>, <<"i", "e">>, [kind |-> "LenWordIs4", word |-> w]).exc
       = "CannotReplaceSuffix"
  /\ ReplaceSuffixIf(w, <<"e", "e", "d">>, <<"e", "e">>, [kind |-> "MeasureGt0"]).exc
       = "CannotReplaceSuffix"
  /\ Step1bRule2Or3(w) = Ok(s)
  /\ ~EndsWith(s, <<"a", "t">>) /\ ~EndsWith(s, <<"b", "l">>) /\ ~EndsWith(s, <<"i", "z">>)
  /\ ~(Len(s) >= 2 /\ At(s, -1) = At(s, -2) /\ At(s, -1) \notin {"l", "s", "z"})
  /\ Measure(s) = 1 /\ EndsCvc(s)

\* C3: in step 1b, when ED or ING was stripped and none of the at, bl, iz and
\* double-letter rules applies, an e is appended to a stem of measure 1 that ends
\* cvc; step 1b maps filing to file and stem('filing') is file.
C3_Claim ==
  /\ \A t \in Threads :
       pc[t] = "step1c" /\ C3_Case(before[t], SliceTo(before[t], -2))
         => stem[t] = SliceTo(before[t], -2) \o <<"e">>
  /\ \A t \in Threads :
       pc[t] = "step1c" /\ C3_Case(before[t], SliceTo(before[t], -3))
         => stem[t] = SliceTo(before[t], -3) \o <<"e">>
  /\ Step1bMaps(<<"f", "i", "l", "i", "n", "g">>, <<"f", "i", "l", "e">>)
  /\ Stems(<<"f", "i", "l", "i", "n", "g">>, <<"f", "i", "l", "e">>)

\* C4 as stated: stem returns relate, condition, triplic, electric, hope, adjust,
\* control and roll for relational, conditional, triplicate, electrical,
\* hopefulness, adjustable, controll and roll.
C4_Claim ==
  /\ Stems(<<"r", "e", "l", "a", "t", "i", "o", "n", "a", "l">>, <<"r", "e", "l", "a", "t", "e">>)
  /\ Stems(<<"c", "o", "n", "d", "i", "t", "i", "o", "n", "a", "l">>, <<"c", "o", "n", "d", "i", "t", "i", "o", "n">>)
  /\ Stems(<<"t", "r", "i", "p", "l", "i", "c", "a", "t", "e">>, <<"t", "r", "i", "p", "l", "i", "c">>)
  /\ Stems(<<"e", "l", "e", "c", "t", "r", "i", "c", "a", "l">>, <<"e", "l", "e", "c", "t", "r", "i", "c">>)
  /\ Stems(<<"h", "o", "p", "e", "f", "u", "l", "n", "e", "s", "s">>, <<"h", "o", "p", "e">>)
  /\ Stems(<<"a", "d", "j", "u", "s", "t", "a", "b", "l", "e">>, <<"a", "d", "j", "u", "s", "t">>)
  /\ Stems(<<"c", "o", "n", "t", "r", "o", "l", "l">>, <<"c", "o", "n", "t", "r", "o", "l">>)
  /\ Stems(<<"r", "o", "l", "l">>, <<"r", "o", "l", "l">>)

\* C4 amended: stem returns relat, condit, triplic, electr, hope, adjust, control
\* and roll for relational, conditional, triplicate, electrical, hopefulness,
\* adjustable, controll and roll.
C4_ClassicCases ==
  /\ Stems(<<"r", "e", "l", "a", "t", "i", "o", "n", "a", "l">>, <<"r", "e", "l", "a", "t">>)
  /\ Stems(<<"c", "o", "n", "d", "i", "t", "i", "o", "n", "a", "l">>, <<"c", "o", "n", "d", "i", "t">>)
  /\ Stems(<<"t", "r", "i", "p", "l", "i", "c", "a", "t", "e">>, <<"t", "r", "i", "p", "l", "i", "c">>)
  /\ Stems(<<"e", "l", "e", "c", "t", "r", "i", "c", "a", "l">>, <<"e", "l", "e", "c", "t", "r">>)
  /\ Stems(<<"h", "o", "p", "e", "f", "u", "l", "n", "e", "s", "s">>, <<"h", "o", "p", "e">>)
  /\ Stems(<<"a", "d", "j", "u", "s", "t", "a", "b", "l", "e">>, <<"a", "d", "j", "u", "s", "t">>)
  /\ Stems(<<"c", "o", "n", "t", "r", "o", "l", "l">>, <<"c", "o", "n", "t", "r", "o", "l">>)
  /\ Stems(<<"r", "o", "l", "l">>, <<"r", "o", "l", "l">>)

C4_Witness == Stemmed(<<"r", "e", "l", "a", "t", "i", "o", "n", "a", "l">>, <<"r", "e", "l", "a", "t">>)

\* C5 as stated: what step 1b's second rule pass restored is what stem returns:
\* conflate, trouble, hop and fall for conflated, troubled, hopping and falling.
C5_Claim ==
  /\ Stems(<<"c", "o", "n", "f", "l", "a", "t", "e", "d">>, <<"c", "o", "n", "f", "l", "a", "t", "e">>)
  /\ Stems(<<"t", "r", "o", "u", "b", "l", "e", "d">>, <<"t", "r", "o", "u", "b", "l", "e">>)
  /\ Stems(<<"h", "o", "p", "p", "i", "n", "g">>, <<"h", "o", "p">>)
  /\ Stems(<<"f", "a", "l", "l", "i", "n", "g">>, <<"f", "a", "l", "l">>)

\* C5 amended: step 1b returns conflate, trouble, hop and fall for conflated,
\* troubled, hopping and falling, and stem returns conflat, troubl, hop and fall:
\* step 5 removes the e that step 1b restored.
C5_Restoration ==
  /\ Step1bMaps(<<"c", "o", "n", "f", "l", "a", "t", "e", "d">>, <<"c", "o", "n", "f", "l", "a", "t", "e">>)
  /\ Step1bMaps(<<"t", "r", "o", "u", "b", "l", "e", "d">>, <<"t", "r", "o", "u", "b", "l", "e">>)
  /\ Step1bMaps(<<"h", "o", "p", "p", "i", "n", "g">>, <<"h", "o", "p">>)
  /\ Step1bMaps(<<"f", "a", "l", "l", "i", "n", "g">>, <<"f", "a", "l", "l">>)
  /\ Stems(<<"c", "o", "n", "f", "l", "a", "t", "e", "d">>, <<"c", "o", "n", "f", "l", "a", "t">>)
  /\ Stems(<<"t", "r", "o", "u", "b", "l", "e", "d">>, <<"t", "r", "o", "u", "b", "l">>)
  /\ Stems(<<"h", "o", "p", "p", "i", "n", "g">>, <<"h", "o", "p">>)
  /\ Stems(<<"f", "a", "l", "l", "i", "n", "g">>, <<"f", "a", "l", "l">>)

C5_Witness ==
  \E t \in Threads :
    /\ pc[t] = "done" /\ word[t] = <<"c", "o", "n", "f", "l", "a", "t", "e", "d">> /\ result[t] = <<"c", "o", "n", "f", "l", "a", "t">>
    /\ Step1b(<<"c", "o", "n", "f", "l", "a", "t", "e", "d">>) = Ok(<<"c", "o", "n", "f", "l", "a", "t", "e">>)

\* C6: a PorterStemmer can be constructed with mode=PorterStemmer.MARTIN_EXTENSIONS:
\* no constructor call the unit test makes raises.
C6_Claim == ctorExc = "none"

\* C7: the stem is never longer than the word given to stem.
C7_NeverLonger ==
  \A t \in Threads : pc[t] = "done" => Len(result[t]) <= Len(word[t])

\* a call on 'sized' has returned size: step 1b restored the e and it stayed
C7_Witness == Stemmed(<<"s", "i", "z", "e", "d">>, <<"s", "i", "z", "e">>) /\ Step1b(<<"s", "i", "z", "e", "d">>) = Ok(<<"s", "i", "z", "e">>)

\* C8: a word of length <= 2, the empty string included, that is no key of the
\* irregular table is returned exactly as given, with no step applied.
C8_LengthFloor ==
  /\ \A t \in Threads :
       pc[t] = "done" /\ Len(word[t]) <= 2 /\ ~IsSurfaceForm(word[t])
         => result[t] = word[t] /\ path[t] = <<"short">>
  /\ Stems(<<"i", "s">>, <<"i", "s">>)
  /\ Stems(<<"a">>, <<"a">>)

C8_Witness ==
  \E t \in Threads :
    pc[t] = "done" /\ word[t] = <<"I", "S">> /\ result[t] = <<"I", "S">> /\ path[t] = <<"short">>

\* C9: no stem call changes the irregular table or the vowel set, and under any
\* interleaving of calls on the shared instance every call returns what the same
\* call returns run alone on a freshly built instance.
C9_SharedInstance ==
  /\ pool = BuildPool(IrregularForms)
  /\ vowels = BuildVowels
  /\ \A t \in Threads : pc[t] = "done" => Ok(result[t]) = StemAlone(word[t])
  /\ \A t \in Threads : pc[t] # "raised"

\* two calls overlap: one has finished hopping while the other is inside agreed
C9_Witness ==
  \E t, u \in Threads :
    /\ t # u
    /\ pc[t] = "done" /\ word[t] = <<"h", "o", "p", "p", "i", "n", "g">> /\ result[t] = <<"h", "o", "p">>
    /\ pc[u] = "step2" /\ word[u] = <<"a", "g", "r", "e", "e", "d">>

\* C10: step 1b leaves unchanged a word ending in eed whose part before eed has
\* measure 0 (feed stays feed: the ED and ING rules are not applied to it), and
\* maps agreed to agree.
C10_Claim ==
  /\ \A t \in Threads :
       /\ pc[t] = "step1c"
       /\ EndsWith(before[t], <<"e", "e", "d">>)
       /\ Measure(SliceTo(before[t], -3)) = 0
       => stem[t] = before[t]
  /\ Step1bMaps(<<"f", "e", "e", "d">>, <<"f", "e", "e", "d">>)
  /\ Step1bMaps(<<"a", "g", "r", "e", "e", "d">>, <<"a", "g", "r", "e", "e">>)

\* the case of C11: ED or ING was stripped from w leaving s, and s ends in none of
\* at, bl, iz
C11_Case(w, s) ==
  /\ ReplaceSuffixIf(w, <<"i", "e", "d">>, <<"i", "e">>, [kind |-> "LenWordIs4", word |-> w]).exc
       = "CannotReplaceSuffix"
  /\ ReplaceSuffixIf(w, <<"e", "e", "d">>, <<"e", "e">>, [kind |-> "MeasureGt0"]).exc
       = "CannotReplaceSuffix"
  /\ Step1bRule2Or3(w) = Ok(s)
  /\ ~EndsWith(s, <<"a", "t">>) /\ ~EndsWith(s, <<"b", "l">>) /\ ~EndsWith(s, <<"i", "z">>)

\* in the case of C11, step 1b dropped the last letter of s if and only if s ends
\* in a double consonant other than l, s, z
C11_CollapsedIffDoubleConsonant(w, s, r) ==
  C11_Case(w, s) =>
    (r = SliceTo(s, -1) <=> Doublec(s) /\ At(s, -1) \notin {"l", "s", "z"})

\* C11: in step 1b's second rule pass the final doubled letter is collapsed if and
\* only if the stem ends in two identical consonants other than l, s, z; a doubled
\* vowel is not collapsed: step 1b maps seeing to see.
C11_Claim ==
  /\ \A t \in Threads :
       pc[t] = "step1c" =>
         /\ C11_CollapsedIffDoubleConsonant(before[t], SliceTo(before[t], -2), stem[t])
         /\ C11_CollapsedIffDoubleConsonant(before[t], SliceTo(before[t], -3), stem[t])
  /\ Step1bMaps(<<"s", "e", "e", "i", "n", "g">>, <<"s", "e", "e">>)

\* step 5a removes the final e of a word whose part s before the e has measure > 1,
\* or measure 1 and not the pattern cvc
C12_Removes(s, cvc) == Measure(s) > 1 \/ (Measure(s) = 1 /\ ~cvc)

\* w ends in e and step 5 has turned it into r: the e went, or stayed, as
\* removes says (the -ll rule of step 5 then ran on what step 5a left)
C12_Step5aAsStated(w, r, removes) ==
  Len(w) >= 1 /\ At(w, -1) = "e" =>
    r = Step5b(IF removes THEN SliceTo(w, -1) ELSE w)

\* s is two letters, a vowel and then a consonant
C12_VowelConsonant(s) == Len(s) = 2 /\ ~Cons(s, 0) /\ Cons(s, 1)

\* C12 as stated: step 5a removes a trailing e if and only if the stem before it
\* has measure > 1, or measure 1 and does not end consonant-vowel-consonant with
\* the last consonant not w, x, y; also for three-letter words vowel-consonant-e.
C12_Claim ==
  \A t \in Threads :
    pc[t] = "return" =>
      C12_Step5aAsStated(before[t], stem[t],
        C12_Removes(SliceTo(before[t], -1), EndsCvc(SliceTo(before[t], -1))))

\* C12 amended: step 5a removes a trailing e if and only if the stem before it has
\* measure > 1, or measure 1 and neither ends consonant-vowel-consonant with the
\* last consonant not w, x, y, nor is a two-letter stem vowel-consonant: ice, are
\* and owe keep their e, rate stays rate and cease becomes ceas.
C12_FinalE ==
  /\ \A t \in Threads :
       pc[t] = "return" =>
         C12_Step5aAsStated(before[t], stem[t],
           C12_Removes(SliceTo(before[t], -1),
                       EndsCvc(SliceTo(before[t], -1))
                         \/ C12_VowelConsonant(SliceTo(before[t], -1))))
  /\ Stems(<<"i", "c", "e">>, <<"i", "c", "e">>)
  /\ Stems(<<"a", "r", "e">>, <<"a", "r", "e">>)
  /\ Stems(<<"o", "w", "e">>, <<"o", "w", "e">>)
  /\ Stems(<<"r", "a", "t", "e">>, <<"r", "a", "t", "e">>)
  /\ Stems(<<"c", "e", "a", "s", "e">>, <<"c", "e", "a", "s">>)

\* step 5 has run on 'ice' and left it: the stem 'ic' is vowel-consonant
C12_Witness ==
  \E t \in Threads :
    /\ pc[t] = "return" /\ before[t] = <<"i", "c", "e">> /\ stem[t] = <<"i", "c", "e">>
    /\ Measure(<<"i", "c">>) = 1 /\ ~EndsCvc(<<"i", "c">>)

\* one pass of step 2 over a word s that ends in al: only the ational and tional
\* rules can match it
C13_PassOnAl(s) ==
  IF EndsWith(s, <<"a", "t", "i", "o", "n", "a", "l">>)
  THEN (IF Measure(SliceTo(s, -7)) > 0 THEN SliceTo(s, -7) \o <<"a", "t", "e">> ELSE s)
  ELSE IF EndsWith(s, <<"t", "i", "o", "n", "a", "l">>)
  THEN (IF Measure(SliceTo(s, -6)) > 0 THEN SliceTo(s, -2) ELSE s)
  ELSE s

\* C13: step 2 ends on every word: when the alli rule succeeds step 2 is entered
\* once more, on the word without its final li; that word ends in al, so it does
\* not reach the alli rule again, and the result is what one pass of step 2
\* returns on it.
C13_AlliReinvokedOnce ==
  \A t \in Threads :
    pc[t] = "step3" =>
      /\ Step2Invocations(before[t]) <= 2
      /\ Step2AlliSucceeds(before[t]) =>
           /\ Step2Invocations(before[t]) = 2
           /\ EndsWith(SliceTo(before[t], -2), <<"a", "l">>)
           /\ ~Step2AlliSucceeds(SliceTo(before[t], -2))
           /\ stem[t] = C13_PassOnAl(SliceTo(before[t], -2))

\* step 2 has turned 'conditionalli' into 'condition': alli, then tional
C13_Witness ==
  \E t \in Threads :
    /\ pc[t] = "step3" /\ before[t] = <<"c", "o", "n", "d", "i", "t", "i", "o", "n", "a", "l", "l", "i">> /\ stem[t] = <<"c", "o", "n", "d", "i", "t", "i", "o", "n">>
    /\ Step2AlliSucceeds(<<"c", "o", "n", "d", "i", "t", "i", "o", "n", "a", "l", "l", "i">>)

\* the rule list _step1a hands to the rule engine for the word w
C14_Step1aRules(w) ==
  <<Rule(<<"s", "s", "e", "s">>, <<"s", "s">>, NoCondition),
    Rule(<<"i", "e", "s">>, <<"i", "e">>, [kind |-> "LenWordIs4", word |-> w]),
    Rule(<<"i", "e", "s">>, <<"i">>, NoCondition),
    Rule(<<"s", "s">>, <<"s", "s">>, NoCondition),
    Rule(<<"s">>, <<>>, NoCondition)>>

\* what rule k of rules makes of w on its own
C14_RuleAlone(w, rules, k) ==
  ReplaceSuffixIf(w, rules[k].suffix, rules[k].replacement, rules[k].condition)

\* the rules of the list whose suffix ends w and whose condition holds
C14_Applicable(w, rules) ==
  {k \in 1..Len(rules) : C14_RuleAlone(w, rules, k).exc = "none"}

\* the result of the first applicable rule, each rule tried on w itself; w when
\* there is none
C14_FirstMatch(w, rules) ==
  IF C14_Applicable(w, rules) = {} THEN w
  ELSE LET first == CHOOSE k \in C14_Applicable(w, rules) :
                      \A j \in C14_Applicable(w, rules) : k <= j
       IN C14_RuleAlone(w, rules, first).val

\* C14: the rule engine returns the result of the first rule whose suffix ends the
\* word and whose condition holds; a rule whose suffix matches and whose condition
\* fails is skipped and the next rule is tried on the same word; when no rule
\* applies the word is returned unchanged. Checked on step 1a's rule list.
C14_FirstApplicableRule ==
  \A t \in Threads :
    pc[t] = "step1b" =>
      /\ stem[t] = C14_FirstMatch(before[t], C14_Step1aRules(before[t]))
      /\ C14_Applicable(before[t], C14_Step1aRules(before[t])) = {}
           => stem[t] = before[t]

\* step 1a has turned 'ponies' into 'poni': the rule ies -> ie matched the suffix,
\* its condition failed, and the next rule, ies -> i, was applied
C14_Witness ==
  \E t \in Threads :
    /\ pc[t] = "step1b" /\ before[t] = <<"p", "o", "n", "i", "e", "s">> /\ stem[t] = <<"p", "o", "n", "i">>
    /\ EndsWith(<<"p", "o", "n", "i", "e", "s">>, C14_Step1aRules(<<"p", "o", "n", "i", "e", "s">>)[2].suffix)
    /\ C14_RuleAlone(<<"p", "o", "n", "i", "e", "s">>, C14_Step1aRules(<<"p", "o", "n", "i", "e", "s">>), 2).exc = "CannotReplaceSuffix"

\* _m(w, j) and _measure(w[:j+1]) agree for every j from -1 to len(w) - 1
C15_Agree(w) ==
  \A j \in (-1)..(Len(w) - 1) : M(w, j) = Measure(SliceTo(w, j + 1))

\* C15: the two measure implementations agree: for every word w and every index j
\* with -1 <= j < len(w), _m(w, j) equals _measure(w[:j+1]). Checked on every
\* word given to stem, lowercased or not, and on every intermediate stem.
C15_MeasuresAgree ==
  \A t \in Threads :
    C15_Agree(word[t]) /\ C15_Agree(stem[t])

\* a stem of measure 2 whose first letter is a consonant is about to enter step 5
C15_Witness ==
  \E t \in Threads :
    /\ pc[t] = "step5"
    /\ Len(stem[t]) >= 1
    /\ Cons(stem[t], 0)
    /\ M(stem[t], Len(stem[t]) - 1) = 2
    /\ Measure(stem[t]) = 2

\* the positions of a call between two steps, from before step 1a to after step 5
C16_StepBoundaries ==
  {"step1a", "step1b", "step1c", "step2", "step3", "step4", "step5", "return"}

\* C16: for every input of letters, longer than 2, that misses the irregular
\* table, the stem at every step boundary is non-empty, so no read of word[-1]
\* raises IndexError, and stem does not return the empty string.
C16_StemNeverEmpty ==
  \A t \in Threads :
    Len(word[t]) > 2 /\ ~IsSurfaceForm(word[t]) =>
      /\ pc[t] \in C16_StepBoundaries => Len(stem[t]) > 0
      /\ pc[t] = "done" => Len(result[t]) > 0
      /\ pc[t] # "raised"
      /\ exc[t] # "IndexError"

\* a call on 'eed' went through all the steps and returned the one letter 'e'
C16_Witness ==
  \E t \in Threads :
    pc[t] = "done" /\ word[t] = <<"e", "e", "d">> /\ result[t] = <<"e">> /\ path[t] = AllSteps

====
